---------------------------- MODULE Spec2Model ----------------------------
(***************************************************************************)
(* The i18n utilities of the blog (src/src/i18n/ui.ts holds both ui.ts and *)
(* utils.ts): getLangFromUrl, useTranslatedPath/translatePath and          *)
(* getRouteFromUrl, over the routes and ui tables; and the client-side     *)
(* widgets that use them or stand beside them in the header: the language  *)
(* picker, the theme toggle and the mobile menu.                           *)
(*                                                                         *)
(* A JavaScript string is a sequence of one-character strings, so that     *)
(* split, replaceAll, startsWith and concatenation are computed as the     *)
(* code computes them.  A JavaScript object literal is a sequence of       *)
(* <<key, value>> entries in insertion order; property lookup and the `in` *)
(* operator also see the properties inherited from Object.prototype.       *)
(***************************************************************************)
EXTENDS Integers, Sequences, FiniteSets, TLC

(* ------------------------------ bounds -------------------------------- *)

\* Largest number of "/"-separated segments of a pathname drawn as input.
MaxSegs == 3

\* Largest number of clicks on the theme toggle in one behaviour.
MaxClicks == 5

(* ------------------------------ strings ------------------------------- *)

EMPTY == <<>>
SLASH == <<"/">>
EN == <<"e", "n">>
PTBR == <<"p", "t", "b", "r">>
BLOG == <<"b", "l", "o", "g">>
ABOUT == <<"a", "b", "o", "u", "t">>
HOME == <<"h", "o", "m", "e">>
SOBRE == <<"s", "o", "b", "r", "e">>
NVMXFNM == <<"n", "v", "m", "x", "f", "n", "m">>
CONSTRUCTOR == <<"c", "o", "n", "s", "t", "r", "u", "c", "t", "o", "r">>

\* The value `undefined`.  Its one element is not a character, so it differs
\* from every string.
Undefined == <<"undefined">>

\* The value of a property inherited from Object.prototype (a function object
\* for every name but __proto__).  Its first element is not a character.
Inherited(key) == <<"Object.prototype">> \o key

IsInherited(v) == Len(v) > 0 /\ v[1] = "Object.prototype"

\* String(v) as the + operator applies it to a non-string operand: the source
\* text of a native function, "function Object() { [native code] }", which is
\* kept as one opaque character followed by the property's name.
ToStr(v) == IF IsInherited(v) THEN <<"[native code]">> \o Tail(v) ELSE v

\* Truthiness of a string-or-undefined value: the test of `a ? b : c`, `a || b`.
Truthy(v) == v # Undefined /\ v # EMPTY

\* The names every object inherits from Object.prototype.
ObjectPrototypeKeys ==
    { CONSTRUCTOR,
      <<"t", "o", "S", "t", "r", "i", "n", "g">>,
      <<"v", "a", "l", "u", "e", "O", "f">>,
      <<"t", "o", "L", "o", "c", "a", "l", "e", "S", "t", "r", "i", "n", "g">>,
      <<"h", "a", "s", "O", "w", "n", "P", "r", "o", "p", "e", "r", "t", "y">>,
      <<"i", "s", "P", "r", "o", "t", "o", "t", "y", "p", "e", "O", "f">>,
      <<"p", "r", "o", "p", "e", "r", "t", "y", "I", "s", "E", "n", "u", "m", "e", "r", "a", "b", "l", "e">>,
      <<"_", "_", "p", "r", "o", "t", "o", "_", "_">>,
      <<"_", "_", "d", "e", "f", "i", "n", "e", "G", "e", "t", "t", "e", "r", "_", "_">>,
      <<"_", "_", "d", "e", "f", "i", "n", "e", "S", "e", "t", "t", "e", "r", "_", "_">>,
      <<"_", "_", "l", "o", "o", "k", "u", "p", "G", "e", "t", "t", "e", "r", "_", "_">>,
      <<"_", "_", "l", "o", "o", "k", "u", "p", "S", "e", "t", "t", "e", "r", "_", "_">> }

\* Index of the first "/" of s, or 0.
RECURSIVE IndexOfSlash(_, _)
IndexOfSlash(s, i) ==
    IF i > Len(s) THEN 0
    ELSE IF s[i] = "/" THEN i
    ELSE IndexOfSlash(s, i + 1)

\* s.split("/")
RECURSIVE Split(_)
Split(s) ==
    LET i == IndexOfSlash(s, 1)
    IN  IF i = 0 THEN <<s>>
        ELSE <<SubSeq(s, 1, i - 1)>> \o Split(SubSeq(s, i + 1, Len(s)))

NotSlash(c) == c # "/"

\* s.replaceAll("/", "")
ReplaceAllSlash(s) == SelectSeq(s, NotSlash)

\* s.startsWith(p)
StartsWith(s, p) == Len(s) >= Len(p) /\ SubSeq(s, 1, Len(p)) = p

(* --------------------- objects with string keys ----------------------- *)

\* An object whose values are strings: kind "object" with its own entries,
\* kind "function" for an inherited function object used as a table (no own
\* enumerable keys), kind "undefined" for a missing table.
Obj(entries) == [kind |-> "object", entries |-> entries]

RECURSIVE OwnIndex(_, _, _)
OwnIndex(entries, key, i) ==
    IF i > Len(entries) THEN 0
    ELSE IF entries[i][1] = key THEN i
    ELSE OwnIndex(entries, key, i + 1)

\* key in obj
In(obj, key) ==
    \/ OwnIndex(obj.entries, key, 1) # 0
    \/ key \in ObjectPrototypeKeys

\* obj[key] for an object or function object whose own values are strings
Get(obj, key) ==
    LET i == OwnIndex(obj.entries, key, 1)
    IN  IF i # 0 THEN obj.entries[i][2]
        ELSE IF key \in ObjectPrototypeKeys THEN Inherited(key)
        ELSE Undefined

\* Object.keys(obj), in insertion order
ObjectKeys(obj) == [i \in 1..Len(obj.entries) |-> obj.entries[i][1]]


(* ------------------------- tables (ui.ts) ----------------------------- *)

\* the shipped routes with the ptbr table written first
ShippedRoutes_ptbrFirst ==
    << <<PTBR, << <<HOME, EMPTY>>, <<ABOUT, ABOUT>> >> >>,
       <<EN,   << <<HOME, EMPTY>>, <<ABOUT, ABOUT>> >> >> >>

\* export const routes, as shipped: one table per locale, in source order.
ShippedRoutes ==
    << <<EN,   << <<HOME, EMPTY>>, <<ABOUT, ABOUT>> >> >>,
       <<PTBR, << <<HOME, EMPTY>>, <<ABOUT, ABOUT>> >> >> >>

\* export const routes of the earlier ui.ts kept in the same file, which also
\* has the blog index.
EarlierRoutes ==
    << <<EN,   << <<HOME, EMPTY>>, <<BLOG, BLOG>>, <<ABOUT, ABOUT>> >> >>,
       <<PTBR, << <<HOME, EMPTY>>, <<BLOG, BLOG>>, <<ABOUT, ABOUT>> >> >> >>

\* The table of the specification's scenario, {ptbr: {about: "sobre"}}, on top
\* of the shipped one.
ScenarioRoutes ==
    << <<EN,   << <<HOME, EMPTY>>, <<ABOUT, ABOUT>> >> >>,
       <<PTBR, << <<HOME, EMPTY>>, <<ABOUT, SOBRE>> >> >> >>

\* export const defaultLang
defaultLang == EN

\* export const showDefaultLang, as shipped
ShippedShowDefaultLang == FALSE

\* export const ui
ui ==
    << <<EN,   << << <<"n", "a", "v", ".", "h", "o", "m", "e">>,
                     <<"H", "o", "m", "e">> >>,
                  << <<"n", "a", "v", ".", "a", "b", "o", "u", "t">>,
                     <<"A", "b", "o", "u", "t", " ", "m", "e">> >>,
                  << <<"n", "a", "v", ".", "t", "i", "t", "l", "e">>,
                     <<"N", "a", "v", "i", "g", "a", "t", "i", "o", "n">> >> >> >>,
       <<PTBR, << << <<"n", "a", "v", ".", "a", "b", "o", "u", "t">>,
                     <<"S", "o", "b", "r", "e", " ", "m", "i", "m">> >>,
                  << <<"n", "a", "v", ".", "t", "i", "t", "l", "e">>,
                     <<"N", "a", "v", "e", "g", "a", "ç", "ã", "o">> >> >> >> >>

\* The supported locales: the own keys of ui (and of routes).
Locales == {ui[i][1] : i \in 1..Len(ui)}

\* tables[l] for an object of tables (routes, ui): the locale's own table, an
\* inherited function object when l names a property of Object.prototype, or
\* undefined.
GetTable(tables, l) ==
    LET i == OwnIndex(tables, l, 1)
    IN  IF i # 0 THEN Obj(tables[i][2])
        ELSE IF l \in ObjectPrototypeKeys
             THEN [kind |-> "function", entries |-> <<>>]
        ELSE [kind |-> "undefined", entries |-> <<>>]

\* Object.values(tables)[0]
FirstValue(tables) == Obj(tables[1][2])

(* ------------------------- utils.ts ----------------------------------- *)

\* getLangFromUrl with the destructuring off by one: `const [lang] = ...`
getLangFromUrl_firstPart(pathname) ==
    LET parts == Split(pathname)
        lang  == parts[1]
    IN  IF In(Obj(ui), lang) THEN lang ELSE defaultLang

\* getLangFromUrl(url), url given by its pathname
getLangFromUrl(pathname) ==
    LET parts == Split(pathname)
        lang  == IF Len(parts) >= 2 THEN parts[2] ELSE Undefined
    IN  IF In(Obj(ui), lang) THEN lang ELSE defaultLang

\* t without the fallback to the default locale
useTranslations_noFallback(lang, key) == Get(GetTable(ui, lang), key)

\* useTranslations(lang)(key): ui[lang][key] || ui[defaultLang][key].  lang is
\* a result of getLangFromUrl, so ui[lang] is an object or an inherited
\* function object, neither of which has an own property named by a label key.
useTranslations(lang, key) ==
    LET own == Get(GetTable(ui, lang), key)
    IN  IF Truthy(own) THEN own ELSE Get(GetTable(ui, defaultLang), key)

\* translatePath that never consults the route table
translatePath_noLookup(rts, sdl, path, l) ==
    IF ~sdl /\ l = defaultLang THEN path
    ELSE SLASH \o l \o path

\* translatePath whose fallback rebuilds the path from the route key
translatePath_rebuilt(rts, sdl, path, l) ==
    LET pathName == ReplaceAllSlash(path)
        table == GetTable(rts, l)
        hasTranslation ==
            /\ defaultLang # l
            /\ table.kind # "undefined"
            /\ Get(table, pathName) # Undefined
        translatedPath ==
            IF hasTranslation THEN SLASH \o ToStr(Get(table, pathName))
            ELSE SLASH \o pathName
    IN  IF ~sdl /\ l = defaultLang THEN translatedPath
        ELSE SLASH \o l \o translatedPath

\* translatePath that prefixes the locale whatever the flag and the locale
translatePath_alwaysPrefix(rts, sdl, path, l) ==
    LET pathName == ReplaceAllSlash(path)
        table == GetTable(rts, l)
        hasTranslation ==
            /\ defaultLang # l
            /\ table.kind # "undefined"
            /\ Get(table, pathName) # Undefined
        translatedPath ==
            IF hasTranslation THEN SLASH \o ToStr(Get(table, pathName))
            ELSE path
    IN  SLASH \o l \o translatedPath

\* useTranslatedPath(lang)(path, l) under the tables rts and the flag sdl
translatePath(rts, sdl, path, l) ==
    LET pathName == ReplaceAllSlash(path)
        table == GetTable(rts, l)
        hasTranslation ==
            /\ defaultLang # l
            /\ table.kind # "undefined"
            /\ Get(table, pathName) # Undefined
        translatedPath ==
            IF hasTranslation THEN SLASH \o ToStr(Get(table, pathName))
            ELSE path
    IN  IF ~sdl /\ l = defaultLang THEN translatedPath
        ELSE SLASH \o l \o translatedPath

\* a single parts.pop(), without the second one for a trailing slash
PopOrPop_single(parts) == parts[Len(parts)]

\* parts.pop() || parts.pop()
PopOrPop(parts) ==
    LET n == Len(parts)
    IN  IF Truthy(parts[n]) THEN parts[n]
        ELSE IF n >= 2 THEN parts[n - 1]
        ELSE Undefined

\* Object.keys(obj).find((key) => obj[key] === value), from the i-th key on
RECURSIVE FindKey(_, _, _)
FindKey(obj, value, i) ==
    LET keys == ObjectKeys(obj)
    IN  IF i > Len(keys) THEN Undefined
        ELSE IF Get(obj, keys[i]) = value THEN keys[i]
        ELSE FindKey(obj, value, i + 1)

\* the forward lookup obj[value] in place of the reverse one
getKeyByValue_forward(obj, value) == Get(obj, value)

getKeyByValue(obj, value) == FindKey(obj, value, 1)

\* getRouteFromUrl(url), url given by its pathname, under the tables rts
getRouteFromUrl(rts, pathname) ==
    LET parts == Split(pathname)
        path  == PopOrPop(parts)
        currentLang == getLangFromUrl(pathname)
    IN  IF path = Undefined THEN Undefined
        ELSE IF \/ StartsWith(pathname, SLASH \o BLOG \o SLASH)
                \/ StartsWith(pathname, SLASH \o PTBR \o SLASH \o BLOG \o SLASH)
             THEN BLOG \o SLASH \o path
        ELSE IF defaultLang = currentLang
             THEN Get(FirstValue(rts), path)
        ELSE getKeyByValue(GetTable(rts, currentLang), path)

(* ------------------------- languagePicker.tsx ------------------------- *)

\* the target of the picker's link: lang === "ptbr" ? "en" : "ptbr", kept as
\* the page's own locale
PickerTarget_same(lang) == IF lang = PTBR THEN PTBR ELSE EN

\* the target of the picker's link: lang === "ptbr" ? "en" : "ptbr"
PickerTarget(lang) == IF lang = PTBR THEN EN ELSE PTBR

\* the template literal `/${route}` without the guard for a missing route
PickerPath_noGuard(route) ==
    SLASH \o (IF route = Undefined
              THEN <<"u", "n", "d", "e", "f", "i", "n", "e", "d">>
              ELSE ToStr(route))

\* the template literal `/${route ? route : ""}`
PickerPath(route) == SLASH \o (IF Truthy(route) THEN ToStr(route) ELSE EMPTY)

(* ------------------------- themeToggle.tsx ---------------------------- *)

\* localStorage.getItem returns null for a key that is not stored.
Null == "null"

\* the initial state: localStorage.getItem("theme") ?? "light"
ThemeInitial_light(stored) == IF stored = Null THEN "light" ELSE stored

\* the initial state: localStorage.getItem("theme") ?? "dark" (the component
\* is client:only, so window is defined)
ThemeInitial(stored) == IF stored = Null THEN "dark" ELSE stored

\* handleClick that only ever switches to light
ThemeToggled_light(theme) == "light"

\* handleClick: theme === "light" ? "dark" : "light"
ThemeToggled(theme) == IF theme = "light" THEN "dark" ELSE "light"

(* ------------------------- menu.tsx ----------------------------------- *)

\* handleClick: setRotate(!rotate)
MenuToggled(rotate) == ~rotate

\* a menu whose backdrop and panel are rendered whatever the state
MenuOverlay_always(rotate) == TRUE

\* {rotate && (<> backdrop, panel </>)}
MenuOverlay(rotate) == rotate

\* the keys the header and the mobile menu hand to t
NavKeys ==
    { <<"n", "a", "v", ".", "t", "i", "t", "l", "e">>,
      <<"n", "a", "v", ".", "h", "o", "m", "e">>,
      <<"n", "a", "v", ".", "b", "l", "o", "g">>,
      <<"n", "a", "v", ".", "a", "b", "o", "u", "t">> }

\* the paths the header and the mobile menu hand to translatePath
NavPaths == {SLASH, SLASH \o BLOG, SLASH \o ABOUT}

(* ------------------------- the dropdown languagePicker.tsx ------------ *)

\* the button's onClick: setIsOpen(!isOpen)
DropdownToggled(isOpen) == ~isOpen

\* a dropdown whose link is rendered whatever the state
DropdownLink_always(isOpen) == TRUE

\* {isOpen && (<ul> the link </ul>)}
DropdownLink(isOpen) == isOpen

(* ------------------------- typingEffect.tsx --------------------------- *)

\* const states = ["", ".", "..", "..."], indexed from 0
TypingStates == <<"", ".", "..", "...">>

\* states[index]
TypingState(index) == TypingStates[index + 1]

\* an index that never advances
TypingNextIndex_stuck(index) == index

\* (index + 1) % states.length
TypingNextIndex(index) == (index + 1) % Len(TypingStates)

(* ------------------------- state machine ------------------------------ *)

VARIABLES
    routes,           \* the routes table of the build
    showDefaultLang,  \* the showDefaultLang flag of the build
    url,              \* pathname of the URL the utilities are applied to
    langOut,          \* last result of getLangFromUrl(url), or NotRun
    routeOut,         \* last result of getRouteFromUrl(url), or NotRun
    pathArg,          \* the path handed to translatePath
    lArg,             \* the target locale of the last translatePath call, or NotRun
    href,             \* the result of the last translatePath call, or NotRun
    fromLang,         \* the locale of the page whose picker link was followed
    trail,            \* the pathnames of the last two pages left through the picker
    tLang,            \* the locale of the last t call, or NotRun
    tKey,             \* the key of the last t call, or NotRun
    tOut,             \* the result of the last t call, or NotRun
    theme,            \* ThemeToggle: the theme state, or Null before mount
    storage,          \* localStorage under "theme", or Null
    atMount,          \* what storage held when ThemeToggle mounted
    darkClass,        \* the document root carries the class "dark"
    effectPending,    \* ThemeToggle: the effect of the last render has not run
    reads,            \* number of localStorage.getItem calls
    writes,           \* number of localStorage.setItem calls
    log,              \* <<theme, storage>> as they were at each click
    rotate,           \* Menu: the open/closed state
    overlay,          \* Menu: the backdrop and the nav panel are rendered
    isOpen,           \* dropdown LanguagePicker: the open/closed state
    linkRendered,     \* dropdown LanguagePicker: the language link is rendered
    typingMounted,    \* TypingEffect is mounted
    ellipsis,         \* TypingEffect: the ellipsis state
    index,            \* TypingEffect: the index variable of the effect's closure
    intervals         \* number of active intervals set by TypingEffect

i18nVars == <<routes, showDefaultLang, url, langOut, routeOut, pathArg, lArg, href, fromLang, trail, tLang, tKey, tOut>>

themeVars == <<theme, storage, atMount, darkClass, effectPending, reads, writes, log>>

menuVars == <<rotate, overlay>>

dropdownVars == <<isOpen, linkRendered>>

typingVars == <<typingMounted, ellipsis, index, intervals>>

widgetVars == <<themeVars, menuVars, dropdownVars, typingVars>>

vars == <<i18nVars, widgetVars>>

NotRun == <<"not run">>

\* The path segments inputs are built from: the empty segment (doubled and
\* trailing slashes), the locale codes, route keys and segments, a blog slug
\* and a name inherited from Object.prototype.
Segments == {EMPTY, EN, PTBR, BLOG, ABOUT, HOME, SOBRE, NVMXFNM, CONSTRUCTOR}

\* "/" + segs.join("/")
RECURSIVE JoinSegs(_)
JoinSegs(segs) ==
    IF segs = <<>> THEN EMPTY
    ELSE SLASH \o Head(segs) \o JoinSegs(Tail(segs))

\* The pathnames drawn as inputs: every URL pathname starts with "/"; each
\* is drawn with and without a trailing slash.
Pathnames ==
    UNION {{JoinSegs(segs) \o t : segs \in [1..n -> Segments], t \in {EMPTY, SLASH}}
           : n \in 1..MaxSegs}

\* The values localStorage may hold under "theme" when the page loads:
\* nothing, what ThemeToggle wrote, or what anything else of the origin wrote.
StoredValues == {Null, "light", "dark", "system", ""}

\* ThemeToggle before it is mounted, with nothing stored.
InitTheme ==
    /\ theme = Null
    /\ atMount = "not mounted"
    /\ darkClass = FALSE
    /\ effectPending = FALSE
    /\ reads = 0
    /\ writes = 0
    /\ log = <<>>

\* Menu as constructed: useState(false), nothing but the button rendered.
InitMenu ==
    /\ rotate = FALSE
    /\ overlay = FALSE

\* The dropdown LanguagePicker as constructed: useState(false).
InitDropdown ==
    /\ isOpen = FALSE
    /\ linkRendered = FALSE

\* TypingEffect before it is mounted.
InitTyping ==
    /\ typingMounted = FALSE
    /\ ellipsis = ""
    /\ index = 0
    /\ intervals = 0

\* Nothing has gone through t or the picker yet.
InitCalls ==
    /\ fromLang = NotRun
    /\ trail = <<>>
    /\ tLang = NotRun
    /\ tKey = NotRun
    /\ tOut = NotRun

InitInputs ==
    /\ pathArg \in Pathnames
    /\ url = pathArg
    /\ langOut = NotRun
    /\ routeOut = NotRun
    /\ lArg = NotRun
    /\ href = NotRun
    /\ InitCalls
    /\ storage = Null
    /\ InitTheme
    /\ InitMenu
    /\ InitDropdown
    /\ InitTyping

\* The shipped build.
Init ==
    /\ routes = ShippedRoutes
    /\ showDefaultLang = ShippedShowDefaultLang
    /\ InitInputs

\* The shipped table under either setting of the showDefaultLang flag.
InitFlag ==
    /\ routes = ShippedRoutes
    /\ showDefaultLang \in BOOLEAN
    /\ InitInputs

\* The other route tables: the earlier one with the blog index and the
\* specification's scenario table.
InitTables ==
    /\ routes \in {EarlierRoutes, ScenarioRoutes}
    /\ showDefaultLang = ShippedShowDefaultLang
    /\ InitInputs

\* const lang = getLangFromUrl(url)
GetLangFromUrl ==
    /\ langOut' = getLangFromUrl(url)
    /\ UNCHANGED <<routes, showDefaultLang, url, routeOut, pathArg, lArg, href, fromLang, trail, tLang, tKey, tOut, widgetVars>>

\* const route = getRouteFromUrl(url)
GetRouteFromUrl ==
    /\ routeOut' = getRouteFromUrl(routes, url)
    /\ UNCHANGED <<routes, showDefaultLang, url, langOut, pathArg, lArg, href, fromLang, trail, tLang, tKey, tOut, widgetVars>>

\* a translatePath that also records the target locale in local storage
TranslatePath_storing ==
    /\ \E l \in Locales :
          /\ lArg' = l
          /\ href' = translatePath(routes, showDefaultLang, pathArg, l)
          /\ storage' = "dark"
    /\ UNCHANGED <<routes, showDefaultLang, url, langOut, routeOut, pathArg,
                   fromLang, trail, tLang, tKey, tOut, theme, atMount, darkClass,
                   effectPending, reads, writes, log, menuVars, dropdownVars,
                   typingVars>>

\* href = translatePath(path, l)
TranslatePath ==
    /\ \E l \in Locales :
          /\ lArg' = l
          /\ href' = translatePath(routes, showDefaultLang, pathArg, l)
    /\ UNCHANGED <<routes, showDefaultLang, url, langOut, routeOut, pathArg, fromLang, trail, tLang, tKey, tOut, widgetVars>>

\* The browser follows the link: the page at href is loaded and the utilities
\* run again on its URL.
Visit ==
    /\ href # NotRun
    /\ url' = href
    /\ langOut' = NotRun
    /\ routeOut' = NotRun
    /\ UNCHANGED <<routes, showDefaultLang, pathArg, lArg, href, fromLang, trail, tLang, tKey, tOut, widgetVars>>

Next == GetLangFromUrl \/ GetRouteFromUrl \/ TranslatePath \/ Visit

Spec == Init /\ [][Next]_vars

SpecFlag == InitFlag /\ [][Next]_vars

SpecTables == InitTables /\ [][Next]_vars

(* ------------------------- the language picker ------------------------ *)

\* A page is loaded, of the shipped build or of the earlier one with the blog
\* index; the picker has not rendered yet.
InitPicker ==
    /\ routes \in {ShippedRoutes, EarlierRoutes}
    /\ showDefaultLang = ShippedShowDefaultLang
    /\ url \in Pathnames
    /\ langOut = NotRun
    /\ routeOut = NotRun
    /\ pathArg = NotRun
    /\ lArg = NotRun
    /\ href = NotRun
    /\ InitCalls
    /\ storage = Null
    /\ InitTheme
    /\ InitMenu
    /\ InitDropdown
    /\ InitTyping

\* LanguagePicker renders: lang, route and the href of its one link.
RenderPicker ==
    LET pickerLang == getLangFromUrl(url)
        pickerRoute == getRouteFromUrl(routes, url)
    IN  /\ href = NotRun
        /\ langOut' = pickerLang
        /\ routeOut' = pickerRoute
        /\ pathArg' = PickerPath(pickerRoute)
        /\ lArg' = PickerTarget(pickerLang)
        /\ href' = translatePath(routes, showDefaultLang,
                                 PickerPath(pickerRoute), PickerTarget(pickerLang))
        /\ UNCHANGED <<routes, showDefaultLang, url, fromLang, trail, tLang, tKey, tOut, widgetVars>>

\* The visitor follows the picker's link: the page at href is loaded, and its
\* picker has not rendered yet.
FollowLink ==
    /\ href # NotRun
    /\ url' = href
    /\ fromLang' = langOut
    /\ trail' = IF Len(trail) < 2 THEN Append(trail, url) ELSE <<trail[2], url>>
    /\ langOut' = NotRun
    /\ routeOut' = NotRun
    /\ pathArg' = NotRun
    /\ lArg' = NotRun
    /\ href' = NotRun
    /\ UNCHANGED <<routes, showDefaultLang, tLang, tKey, tOut, widgetVars>>

NextPicker == RenderPicker \/ FollowLink

SpecPicker == InitPicker /\ [][NextPicker]_vars

(* ------------------------- the theme toggle and the menu -------------- *)

\* The home page of the shipped build is loaded with anything in storage;
\* ThemeToggle is not mounted yet and Menu is closed.
InitWidgets ==
    /\ routes = ShippedRoutes
    /\ showDefaultLang = ShippedShowDefaultLang
    /\ url = SLASH
    /\ langOut = NotRun
    /\ routeOut = NotRun
    /\ pathArg = NotRun
    /\ lArg = NotRun
    /\ href = NotRun
    /\ InitCalls
    /\ storage \in StoredValues
    /\ InitTheme
    /\ InitMenu
    /\ InitDropdown
    /\ InitTyping

\* ThemeToggle mounts: the first render evaluates the argument of useState,
\* which reads storage, and schedules the effect.
ThemeMount ==
    /\ theme = Null
    /\ theme' = ThemeInitial(storage)
    /\ atMount' = storage
    /\ reads' = reads + 1
    /\ effectPending' = TRUE
    /\ UNCHANGED <<i18nVars, storage, darkClass, writes, log, menuVars, dropdownVars, typingVars>>

\* an effect that sets the class but does not persist the theme
ThemeEffect_noStore ==
    /\ effectPending
    /\ darkClass' = (theme = "dark")
    /\ writes' = writes + 1
    /\ effectPending' = FALSE
    /\ UNCHANGED <<i18nVars, theme, storage, atMount, reads, log, menuVars,
                   dropdownVars, typingVars>>

\* useEffect(..., [theme]): runs after the mount and after every render in
\* which theme changed.
ThemeEffect ==
    /\ effectPending
    /\ darkClass' = (theme = "dark")
    /\ storage' = theme
    /\ writes' = writes + 1
    /\ effectPending' = FALSE
    /\ UNCHANGED <<i18nVars, theme, atMount, reads, log, menuVars, dropdownVars, typingVars>>

\* A click on the button: handleClick sets the state; when it changed, the
\* component renders again, which evaluates the argument of useState once
\* more, and the effect is scheduled. React runs a pending effect before the
\* next event is handled.
ThemeClick ==
    /\ theme # Null
    /\ ~effectPending
    /\ Len(log) < MaxClicks
    /\ theme' = ThemeToggled(theme)
    /\ reads' = IF theme' # theme THEN reads + 1 ELSE reads
    /\ effectPending' = (theme' # theme)
    /\ log' = Append(log, <<theme, storage>>)
    /\ UNCHANGED <<i18nVars, storage, atMount, darkClass, writes, menuVars, dropdownVars, typingVars>>

\* A click on the menu button, which is always rendered.
MenuButtonClick ==
    /\ rotate' = MenuToggled(rotate)
    /\ overlay' = MenuOverlay(rotate')
    /\ UNCHANGED <<i18nVars, themeVars, dropdownVars, typingVars>>

\* A click on the backdrop, which is part of the overlay.
BackdropClick ==
    /\ overlay
    /\ rotate' = MenuToggled(rotate)
    /\ overlay' = MenuOverlay(rotate')
    /\ UNCHANGED <<i18nVars, themeVars, dropdownVars, typingVars>>

\* A click on the close button, which is part of the overlay.
CloseClick ==
    /\ overlay
    /\ rotate' = MenuToggled(rotate)
    /\ overlay' = MenuOverlay(rotate')
    /\ UNCHANGED <<i18nVars, themeVars, dropdownVars, typingVars>>

\* A click on the button of the dropdown picker, which is always rendered.
DropdownButtonClick ==
    /\ isOpen' = DropdownToggled(isOpen)
    /\ linkRendered' = DropdownLink(isOpen')
    /\ UNCHANGED <<i18nVars, themeVars, menuVars, typingVars>>

\* A click on the language link of the dropdown picker: its onClick handler,
\* setIsOpen(false).  The browser then loads the link's target, where every
\* component is constructed anew.
DropdownLinkClick ==
    /\ linkRendered
    /\ isOpen' = FALSE
    /\ linkRendered' = DropdownLink(isOpen')
    /\ UNCHANGED <<i18nVars, themeVars, menuVars, typingVars>>

\* TypingEffect mounts: useState("") and the effect, which sets index to 0
\* and starts the interval.
TypingMount ==
    /\ ~typingMounted
    /\ typingMounted' = TRUE
    /\ ellipsis' = ""
    /\ index' = 0
    /\ intervals' = intervals + 1
    /\ UNCHANGED <<i18nVars, themeVars, menuVars, dropdownVars>>

\* The interval fires: setEllipsis(states[index]); index = (index + 1) % 4.
TypingTick ==
    /\ intervals > 0
    /\ ellipsis' = TypingState(index)
    /\ index' = TypingNextIndex(index)
    /\ UNCHANGED <<i18nVars, themeVars, menuVars, dropdownVars, typingMounted, intervals>>

\* TypingEffect that unmounts without clearing its interval
TypingUnmount_noCleanup ==
    /\ typingMounted
    /\ typingMounted' = FALSE
    /\ UNCHANGED <<i18nVars, themeVars, menuVars, dropdownVars, ellipsis, index, intervals>>

\* TypingEffect unmounts: the effect's cleanup, clearInterval(interval).
TypingUnmount ==
    /\ typingMounted
    /\ typingMounted' = FALSE
    /\ intervals' = intervals - 1
    /\ UNCHANGED <<i18nVars, themeVars, menuVars, dropdownVars, ellipsis, index>>

NextWidgets ==
    \/ ThemeMount
    \/ ThemeEffect
    \/ ThemeClick
    \/ MenuButtonClick
    \/ BackdropClick
    \/ CloseClick
    \/ DropdownButtonClick
    \/ DropdownLinkClick
    \/ TypingMount
    \/ TypingTick
    \/ TypingUnmount

SpecWidgets == InitWidgets /\ [][NextWidgets]_vars

\* The widgets under a timer that keeps firing while its interval is active.
SpecWidgetsFair == SpecWidgets /\ WF_vars(TypingTick)

(* ------------------------- the labels of the header ------------------- *)

\* const lang = getLangFromUrl(url); const t = useTranslations(lang); t(key)
Translate ==
    /\ \E key \in NavKeys :
          /\ tLang' = getLangFromUrl(url)
          /\ tKey' = key
          /\ tOut' = useTranslations(getLangFromUrl(url), key)
    /\ UNCHANGED <<routes, showDefaultLang, url, langOut, routeOut, pathArg, lArg,
                   href, fromLang, trail, widgetVars>>

SpecLabels == Init /\ [][Translate]_vars

(* ------------------------- the site as a whole ------------------------ *)

\* The ptbr about page of the shipped build is loaded, nothing stored, no
\* component mounted yet.
InitSite ==
    /\ routes = ShippedRoutes
    /\ showDefaultLang = ShippedShowDefaultLang
    /\ pathArg = SLASH \o PTBR \o SLASH \o ABOUT \o SLASH
    /\ url = pathArg
    /\ langOut = NotRun
    /\ routeOut = NotRun
    /\ lArg = NotRun
    /\ href = NotRun
    /\ InitCalls
    /\ storage = Null
    /\ InitTheme
    /\ InitMenu
    /\ InitDropdown
    /\ InitTyping

\* Every operation of the utilities and of the widgets.
NextSite == Next \/ Translate \/ NextWidgets

SpecSite == InitSite /\ [][NextSite]_vars

(* ------------------------- vocabulary of the claims ------------------- *)

\* The own keys of a locale's table of rts.
KeysOf(rts, l) ==
    LET t == GetTable(rts, l) IN {t.entries[i][1] : i \in 1..Len(t.entries)}

\* The route keys every locale's table defines.
CommonKeys(rts) == {k \in KeysOf(rts, defaultLang) : \A l \in Locales : k \in KeysOf(rts, l)}

\* The route keys some locale's table defines.
AllKeys(rts) == UNION {KeysOf(rts, l) : l \in Locales}

\* The slugs of the blog posts drawn as inputs.
Slugs == Segments \ {EMPTY}

\* The synthetic keys "blog/<slug>".
BlogKeys == {BLOG \o SLASH \o s : s \in Slugs}

\* A canonical route as translatePath takes it: the home path, "/" + a route
\* key, or "/blog/<slug>".
CanonicalPaths(rts) ==
    {SLASH} \cup {SLASH \o k : k \in AllKeys(rts)} \cup {SLASH \o b : b \in BlogKeys}

\* The segment after the first "/" of a pathname.
FirstSegment(pathname) == Split(pathname)[2]

\* The first non-empty segment of a pathname, or the empty string.
RECURSIVE FirstNonEmpty(_)
FirstNonEmpty(parts) ==
    IF parts = <<>> THEN EMPTY
    ELSE IF Head(parts) # EMPTY THEN Head(parts)
    ELSE FirstNonEmpty(Tail(parts))

\* The link of the last translatePath call has been followed (or is the page
\* itself) and getRouteFromUrl / getLangFromUrl have run on it.
RouteOfHref == lArg # NotRun /\ url = href /\ routeOut # NotRun
LangOfHref == lArg # NotRun /\ url = href /\ langOut # NotRun

(* ------------------------------ claims -------------------------------- *)

\* C1: round-trip law.  For every route key R that every locale's table
\* defines, translatePath("/" + R, defaultLang) followed by getRouteFromUrl
\* on the resulting pathname returns R.
C1_RoundTrip ==
    (RouteOfHref /\ lArg = defaultLang /\ \E R \in CommonKeys(routes) : pathArg = SLASH \o R)
        => pathArg = SLASH \o routeOut

\* C2: for every supported locale L and canonical route R, getLangFromUrl on
\* the pathname translatePath(R, L) returns L.
C2_LangOfTranslated ==
    (LangOfHref /\ pathArg \in CanonicalPaths(routes)) => langOut = lArg

C2_Witness ==
    /\ LangOfHref /\ lArg = PTBR /\ langOut = PTBR
    /\ pathArg = SLASH \o ABOUT
    /\ href = SLASH \o PTBR \o SLASH \o ABOUT

\* The blog URLs of claim C3 as stated: /blog/s/ and /<locale>/blog/s/ for
\* every supported locale, with or without the trailing slash.
BlogUrlsAnyLocale(s) ==
    {pre \o SLASH \o BLOG \o SLASH \o s \o t :
        pre \in {EMPTY} \cup {SLASH \o l : l \in Locales}, t \in {EMPTY, SLASH}}

\* The blog URLs the code recognises: /blog/s/ and /ptbr/blog/s/.
BlogUrlsOfSite(s) ==
    {pre \o SLASH \o BLOG \o SLASH \o s \o t :
        pre \in {EMPTY, SLASH \o PTBR}, t \in {EMPTY, SLASH}}

\* C3 as stated: for every slug s and every supported locale, getRouteFromUrl
\* on /blog/s/ or /<locale>/blog/s/ returns "blog/s".
C3_BlogAnyLocale ==
    \A s \in Slugs :
        (routeOut # NotRun /\ url \in BlogUrlsAnyLocale(s)) => routeOut = BLOG \o SLASH \o s

\* C3 as amended: for every slug s, getRouteFromUrl on /blog/s/ or
\* /ptbr/blog/s/ returns "blog/s", bypassing the route table; the default
\* locale's own prefix (/en/blog/s/) is not recognised as a blog path.
C3_BlogOfSite ==
    \A s \in Slugs :
        (routeOut # NotRun /\ url \in BlogUrlsOfSite(s)) => routeOut = BLOG \o SLASH \o s

C3_Witness ==
    /\ url = SLASH \o PTBR \o SLASH \o BLOG \o SLASH \o ABOUT \o SLASH
    /\ routeOut = BLOG \o SLASH \o ABOUT

\* C4: for every URL whose first path segment is not a supported locale code,
\* getLangFromUrl returns the default locale, never the segment itself.
C4_UnknownSegmentDefaults ==
    (langOut # NotRun /\ FirstSegment(url) \notin Locales) => langOut = defaultLang

\* C5: for every pathname, getLangFromUrl returns the first non-empty segment
\* when that segment is a locale code (also when empty segments precede it),
\* and the default locale otherwise.
C5_FirstNonEmptySegment ==
    langOut # NotRun =>
        langOut = (IF FirstNonEmpty(Split(url)) \in Locales
                   THEN FirstNonEmpty(Split(url)) ELSE defaultLang)

\* The route key of a path as translatePath derives it from the claim's
\* point of view: the path without its slashes.
RouteKey(path) == SelectSeq(path, LAMBDA c : c # "/")

\* The localized segment of key k in locale l's table.
SegmentOf(rts, l, k) ==
    LET t == GetTable(rts, l)
    IN  t.entries[CHOOSE i \in 1..Len(t.entries) : t.entries[i][1] = k][2]

\* The localized segments of locale l's table.
SegmentsOf(rts, l) == {SegmentOf(rts, l, k) : k \in KeysOf(rts, l)}

\* p begins with the locale prefix "/" + l: its first segment is l.
HasLocalePrefix(p, l) ==
    /\ StartsWith(p, SLASH \o l)
    /\ Len(p) = Len(l) + 1 \/ p[Len(l) + 2] = "/"

\* C6 as stated: whenever the path's route key is in the target locale's
\* table and the target is not the default locale or showDefaultLang is set,
\* translatePath returns "/" + l + "/" + the translated segment.
C6_TranslatedWhenPresentOrFlag ==
    (/\ lArg # NotRun
     /\ RouteKey(pathArg) \in KeysOf(routes, lArg)
     /\ lArg # defaultLang \/ showDefaultLang)
        => href = SLASH \o lArg \o SLASH \o SegmentOf(routes, lArg, RouteKey(pathArg))

\* C6 as amended: whenever the path's route key is in the target locale's
\* table and the target is not the default locale, translatePath returns
\* "/" + l + "/" + the translated segment; for the default locale the path is
\* never translated, whatever showDefaultLang is: the result is the input
\* path, prefixed with "/" + l exactly when showDefaultLang is set.
C6_TranslatedWhenPresent ==
    (lArg # NotRun /\ RouteKey(pathArg) \in KeysOf(routes, lArg))
        => href = (IF lArg # defaultLang
                   THEN SLASH \o lArg \o SLASH \o SegmentOf(routes, lArg, RouteKey(pathArg))
                   ELSE IF showDefaultLang THEN SLASH \o lArg \o pathArg
                   ELSE pathArg)

C6_Witness ==
    /\ lArg = PTBR
    /\ pathArg = SLASH \o HOME \o SLASH
    /\ href = SLASH \o PTBR \o SLASH

LookedUp(parts) ==
    IF parts[Len(parts)] # EMPTY \/ Len(parts) = 1 THEN parts[Len(parts)]
    ELSE parts[Len(parts) - 1]

\* pathname is one of the blog paths: it starts with /blog/ or /ptbr/blog/.
IsBlogPath(pathname) ==
    \/ StartsWith(pathname, SLASH \o BLOG \o SLASH)
    \/ StartsWith(pathname, SLASH \o PTBR \o SLASH \o BLOG \o SLASH)

\* C9 as stated: for a URL whose active locale L is not the default and
\* whose last path segment s (a trailing slash apart) equals routes[L][k] for
\* some key k, getRouteFromUrl returns a key k with routes[L][k] = s.
C9_ReverseLookupAnyUrl ==
    \A L \in Locales \ {defaultLang} :
        (/\ routeOut # NotRun
         /\ FirstSegment(url) = L
         /\ LookedUp(Split(url)) \in SegmentsOf(routes, L))
            => /\ routeOut \in KeysOf(routes, L)
               /\ SegmentOf(routes, L, routeOut) = LookedUp(Split(url))

\* C9 as amended: for a URL that is not a blog path (/blog/... or
\* /ptbr/blog/...), whose active locale L is not the default and whose last
\* path segment s (a trailing slash apart) equals routes[L][k] for some key
\* k, getRouteFromUrl returns a key k with routes[L][k] = s.
C9_ReverseLookup ==
    \A L \in Locales \ {defaultLang} :
        (/\ routeOut # NotRun
         /\ FirstSegment(url) = L
         /\ ~IsBlogPath(url)
         /\ LookedUp(Split(url)) \in SegmentsOf(routes, L))
            => /\ routeOut \in KeysOf(routes, L)
               /\ SegmentOf(routes, L, routeOut) = LookedUp(Split(url))

C9_Witness ==
    /\ routes = ScenarioRoutes
    /\ url = SLASH \o PTBR \o SLASH \o SOBRE
    /\ routeOut = ABOUT

\* C10: every result of getRouteFromUrl other than undefined is a canonical
\* route key: a key of the route table or a synthetic "blog/<slug>" key,
\* never a localized segment value such as the empty string.
C10_ResultIsCanonicalKey ==
    (routeOut # NotRun /\ routeOut # Undefined)
        => \/ routeOut \in AllKeys(routes)
           \/ StartsWith(routeOut, BLOG \o SLASH)

\* s is neither a key nor a localized segment of locale l's table.
Unmatched(rts, l, s) == s \notin (KeysOf(rts, l) \cup SegmentsOf(rts, l))

\* C11: for every URL that is not a blog path and whose looked-up segment
\* matches no entry of the active locale's route table, getRouteFromUrl
\* returns undefined.
C11_UnmatchedIsUndefined ==
    (/\ routeOut # NotRun
     /\ ~IsBlogPath(url)
     /\ Unmatched(routes, getLangFromUrl(url), PopOrPop(Split(url))))
        => routeOut = Undefined

\* The last non-empty element of parts, "" when there is none.
RECURSIVE LastNonEmpty(_)
LastNonEmpty(parts) ==
    IF parts = <<>> THEN EMPTY
    ELSE IF parts[Len(parts)] # EMPTY THEN parts[Len(parts)]
    ELSE LastNonEmpty(SubSeq(parts, 1, Len(parts) - 1))

\* C12: the segment getRouteFromUrl looks up is the last non-empty segment
\* of the pathname, for every pathname, those with one or several trailing
\* slashes included.
C12_LooksUpLastNonEmpty ==
    routeOut # NotRun => PopOrPop(Split(url)) = LastNonEmpty(Split(url))

\* C13: the link the language picker renders on a page leads, through
\* getLangFromUrl, to the other supported locale: a ptbr page links to en,
\* every other page links to ptbr.
C13_LinkToOtherLocale ==
    (fromLang # NotRun /\ langOut # NotRun)
        => langOut = (IF fromLang = PTBR THEN EN ELSE PTBR)

\* The picker's link was followed from /ptbr/about to the en page /about.
C13_Witness ==
    /\ fromLang = PTBR
    /\ langOut = EN
    /\ url = SLASH \o ABOUT

\* C14: whenever getRouteFromUrl returns undefined for the current page, the
\* picker's link points to the home page of the other locale: "/" when
\* switching to en, "/ptbr/" when switching to ptbr.
C14_NoRouteLinksHome ==
    (href # NotRun /\ routeOut = Undefined)
        => href = (IF lArg = EN THEN SLASH ELSE SLASH \o PTBR \o SLASH)

\* The picker rendered on a ptbr page without a route and links to "/".
C14_Witness ==
    /\ routeOut = Undefined
    /\ langOut = PTBR
    /\ lArg = EN
    /\ href = SLASH

\* ThemeToggle is mounted.
Mounted == theme # Null

\* The number of clicks on the theme toggle so far.
Clicks == Len(log)

\* C15: when ThemeToggle mounts with no "theme" value in local storage its
\* theme is "dark" until the first click; after exactly one click the theme
\* is "light" and, once the effect of that render has run, local storage
\* holds "light" under "theme".
C15_DefaultDarkThenLight ==
    atMount = Null =>
        /\ (Mounted /\ Clicks = 0) => theme = "dark"
        /\ Clicks = 1 => theme = "light"
        /\ (Clicks = 1 /\ ~effectPending) => storage = "light"

\* Mounted on empty storage, clicked once, the effect has run.
C15_Witness ==
    /\ atMount = Null
    /\ Clicks = 1
    /\ ~effectPending
    /\ theme = "light"
    /\ storage = "light"

\* C16: in every reachable state of ThemeToggle, whatever value local storage
\* held at mount, the theme state is one of "light" or "dark".
C16_ThemeIsLightOrDark == Mounted => theme \in {"light", "dark"}

\* C17 as stated: over mount followed by n clicks, ThemeToggle reads local
\* storage exactly once and writes it exactly n times; mounting alone
\* performs no write.
C17_ReadOnceWritePerToggle ==
    (Mounted /\ ~effectPending) => (reads = 1 /\ writes = Clicks)

\* C17, amended: over mount followed by n clicks, ThemeToggle reads local
\* storage n + 1 times, once in every render, and writes it n + 1 times, once
\* in the effect after the mount and once in the effect after every toggle.
C17_ReadAndWritePerRender ==
    /\ Mounted => reads = Clicks + 1
    /\ (Mounted /\ ~effectPending) => writes = Clicks + 1
    /\ (Mounted /\ effectPending) => writes = Clicks

\* Mounted and clicked twice: three reads and three writes.
C17_Witness ==
    /\ Clicks = 2
    /\ ~effectPending
    /\ reads = 3
    /\ writes = 3

\* C18: from any reachable state, two consecutive clicks restore both the
\* theme state and the persisted "theme" value to what they were before the
\* first of the two.
C18_TwoClicksRestore ==
    (Clicks >= 2 /\ ~effectPending) => <<theme, storage>> = log[Clicks - 1]

\* A click on any of the three controls of the menu.
MenuClick == MenuButtonClick \/ BackdropClick \/ CloseClick

\* C19: the mobile menu starts closed; every click on the menu button, the
\* backdrop or the close button flips the open/closed state; in every state
\* the overlay (backdrop and nav panel) is rendered iff the state is open.
C19_MenuFlipsOverlayIffOpen ==
    /\ ~rotate
    /\ [][MenuClick => rotate' = ~rotate]_vars
    /\ [](overlay <=> rotate)

\* The menu was opened: the overlay is on screen.
C19_Witness == rotate /\ overlay

\* C20: every locale's route table defines an entry for every route key the
\* header and the mobile menu pass to translatePath, the keys being what
\* translatePath derives from "/", "/blog" and "/about", and all locales
\* define the same key set.
C20_NavKeysDefined ==
    /\ \A l \in Locales : \A p \in NavPaths :
            ReplaceAllSlash(p) \in KeysOf(routes, l)
    /\ \A l \in Locales : KeysOf(routes, l) = KeysOf(routes, defaultLang)

\* C21: no operation of the program changes the routes table or the
\* showDefaultLang flag (ui and defaultLang are constants of the module), and
\* getLangFromUrl and translatePath change nothing but their result: the URL
\* and the theme, storage, menu, picker and typing state are left alone.
C21_TablesAndFrame ==
    /\ [][routes' = routes /\ showDefaultLang' = showDefaultLang]_vars
    /\ [][(GetLangFromUrl \/ TranslatePath) => UNCHANGED <<url, widgetVars>>]_vars

\* Every kind of operation has acted and the tables are those of the build.
C21_Witness ==
    /\ langOut # NotRun
    /\ routeOut # NotRun
    /\ href # NotRun
    /\ tOut # NotRun
    /\ Clicks >= 1
    /\ ~effectPending
    /\ rotate
    /\ isOpen
    /\ routes = ShippedRoutes
    /\ showDefaultLang = ShippedShowDefaultLang

\* p without its trailing slash, "/" itself apart.
StripSlash(p) ==
    IF Len(p) > 1 /\ p[Len(p)] = "/" THEN SubSeq(p, 1, Len(p) - 1) ELSE p

\* The pages of the site in en, without a trailing slash: home, about, the
\* blog index and a blog post.
EnPages == {SLASH, SLASH \o ABOUT, SLASH \o BLOG, SLASH \o BLOG \o SLASH \o NVMXFNM}

\* The pathnames of the site's pages, in en and ptbr, with and without a
\* trailing slash.
SitePages ==
    LET bare == EnPages \cup {StripSlash(SLASH \o PTBR \o p) : p \in EnPages}
    IN  bare \cup {p \o SLASH : p \in bare \ {SLASH}}

\* C22: for every site page, following the language picker's link and then
\* the picker's link of the page it leads to comes back to the original
\* pathname, up to a trailing slash.
C22_PickerRoundTrip ==
    (Len(trail) = 2 /\ trail[1] \in SitePages)
        => StripSlash(url) = StripSlash(trail[1])

\* C23: getRouteFromUrl is insensitive to a single trailing slash: for every
\* pathname p that does not end in "/", it returns the same on p and on
\* p + "/", the blog index /blog and /ptbr/blog included.
C23_TrailingSlashInsensitive ==
    (routeOut # NotRun /\ url[Len(url)] # "/")
        => routeOut = getRouteFromUrl(routes, url \o SLASH)

\* C24: after ThemeToggle's effect has run, after mount and after every
\* click, local storage holds the current theme state under "theme", and the
\* document root carries the class "dark" iff the theme state is "dark".
C24_StorageAndClassFollowTheme ==
    (Mounted /\ ~effectPending)
        => (storage = theme /\ (darkClass <=> theme = "dark"))

\* Two clicks after a mount on stored "light": light again, class removed.
C24_Witness ==
    /\ atMount = "light"
    /\ Clicks = 2
    /\ ~effectPending
    /\ theme = "light"
    /\ storage = "light"
    /\ ~darkClass

\* The own keys of an object of tables (routes, ui).
TableKeys(tables) == {tables[i][1] : i \in 1..Len(tables)}

\* C25: the locale getLangFromUrl returns is, for every URL, a key of both
\* the ui table and the routes table, so that neither ui[lang] nor
\* routes[lang] is undefined.
C25_LangIsKeyOfTables ==
    langOut # NotRun
        => /\ langOut \in TableKeys(ui)
           /\ langOut \in TableKeys(routes)
           /\ GetTable(ui, langOut).kind # "undefined"
           /\ GetTable(routes, langOut).kind # "undefined"

\* The string locale l's ui table defines for key k, Undefined when it
\* defines none.
LabelOf(l, k) == IF k \in KeysOf(ui, l) THEN SegmentOf(ui, l, k) ELSE Undefined

\* C26: for every locale and every key the default locale's ui table defines,
\* t(key) returns the active locale's own string when that is defined and
\* non-empty and the default locale's string otherwise, and so neither
\* undefined nor an empty label.
C26_LabelOrDefault ==
    (tOut # NotRun /\ tLang \in Locales /\ tKey \in KeysOf(ui, defaultLang))
        => /\ tOut = (IF LabelOf(tLang, tKey) \notin {Undefined, EMPTY}
                      THEN LabelOf(tLang, tKey)
                      ELSE LabelOf(defaultLang, tKey))
           /\ tOut # Undefined
           /\ tOut # EMPTY

\* t("nav.home") on a ptbr page, whose table has no such key: "Home".
C26_Witness ==
    /\ tLang = PTBR
    /\ tKey = <<"n", "a", "v", ".", "h", "o", "m", "e">>
    /\ tOut = <<"H", "o", "m", "e">>

\* The ellipsis that follows e in the cycle "", ".", "..", "...".
CycleNext(e) ==
    CASE e = ""    -> "."
      [] e = "."   -> ".."
      [] e = ".."  -> "..."
      [] e = "..." -> ""

\* The four values of the ellipsis.
Ellipses == {"", ".", "..", "..."}

\* C27: the displayed ellipsis is always one of "", ".", "..", "..."; each
\* tick advances it cyclically in that order, the first tick after a mount
\* setting ""; and under a fair timer each of the four values is displayed
\* infinitely often as long as the component stays mounted.
C27_EllipsisCycles ==
    /\ [](ellipsis \in Ellipses)
    /\ [][TypingTick =>
             ellipsis' = (IF ellipsis = "" /\ index = 0 THEN ""
                          ELSE CycleNext(ellipsis))]_vars
    /\ \A e \in Ellipses : []<>(~typingMounted \/ ellipsis = e)

\* Four ticks after a mount: the full ellipsis is displayed.
C27_Witness ==
    /\ typingMounted
    /\ ellipsis = "..."
    /\ index = 0

\* C28: once TypingEffect is unmounted its interval is cleared: no tick fires
\* and the ellipsis state is not updated while it is unmounted, and exactly
\* one interval is active per mounted instance (none when there is none).
C28_IntervalClearedOnUnmount ==
    /\ [](intervals = (IF typingMounted THEN 1 ELSE 0))
    /\ [][TypingTick => typingMounted]_vars
    /\ [][(~typingMounted /\ ~typingMounted') => ellipsis' = ellipsis]_vars

\* Unmounted after three ticks: the interval is gone, the ellipsis stays.
C28_Witness ==
    /\ ~typingMounted
    /\ intervals = 0
    /\ ellipsis = ".."

\* C29: the dropdown of the language picker starts closed; the language link
\* is rendered only while isOpen is true; only a click on the picker button
\* opens it, every such click flipping isOpen; and a click on the language
\* link leaves isOpen false.
C29_DropdownOpensByButtonOnly ==
    /\ ~isOpen
    /\ [](linkRendered => isOpen)
    /\ [][(~isOpen /\ isOpen') => DropdownButtonClick]_vars
    /\ [][DropdownButtonClick => isOpen' = ~isOpen]_vars
    /\ [][DropdownLinkClick => ~isOpen']_vars

\* The dropdown was opened: the language link is on screen.
C29_Witness == isOpen /\ linkRendered

\* C30: the table the default-locale branch of getRouteFromUrl consults, the
\* first value of the routes object, is the default locale's table: the
\* first key of routes is defaultLang and Object.values(routes)[0] equals
\* routes[defaultLang].
C30_FirstTableIsDefault ==
    /\ routes[1][1] = defaultLang
    /\ FirstValue(routes) = GetTable(routes, defaultLang)

\* The default-locale branch has acted: /about was looked up in the en table.
C30_Witness ==
    /\ url = SLASH \o ABOUT
    /\ getLangFromUrl(url) = defaultLang
    /\ routeOut = ABOUT

=============================================================================
